---- MODULE Spec2Model ----
(***************************************************************************)
(* Model of opentelemetry.propagators (the package __init__):              *)
(*   - the module-level initialization that resolves the configured        *)
(*     propagator names into instances and installs a composite,           *)
(*   - the process-wide registry _HTTP_TEXT_FORMAT with                    *)
(*     get_global_textmap / set_global_textmap,                            *)
(*   - the module-level extract / inject that delegate to the registry.    *)
(*   - a propagator object the application holds and calls itself          *)
(*     (SpecDirect): extract, inject and fields of a composite.            *)
(* Every bytecode-level step at which CPython may switch threads is an     *)
(* action of its own (call, LOAD_GLOBAL / STORE_GLOBAL, return).           *)
(***************************************************************************)
EXTENDS Naturals, Sequences, FiniteSets

\* ------------------------------------------------------------------ bounds
\* Longest PROPAGATORS configuration value, in symbols of Alphabet.
MaxCfgLen == 3
\* Number of concurrently running application threads.
NThreads == 2
\* Number of application-defined propagators that may be given to
\* set_global_textmap.
NCustom == 2
\* Number of API calls and configuration changes the application makes in
\* one run.
MaxCalls == 3
\* Longest member list of a composite the application builds itself.
MaxMembers == 2

\* ------------------------------------------------------ configuration text
\* A configuration value is a string: a sequence of symbols.  A symbol is the
\* separator "," or an unbroken run of other characters.
Sep == ","
Alphabet == {"tracecontext", "baggage", Sep}

\* The names for which an opentelemetry_propagator entry point is declared
\* (module docstring: tracecontext and baggage are defined in setup.cfg).
EntryPointNames == {<<"tracecontext">>, <<"baggage">>}

Strings == UNION {[1..n -> Alphabet] : n \in 0..MaxCfgLen}

\* The environment holds no PROPAGATORS value.
Unset == <<"<unset>">>

\* The two default names the other way round.
DefaultReversed == <<"baggage", Sep, "tracecontext">>

\* The default of Configuration().get("PROPAGATORS", "tracecontext,baggage").
DefaultPropagators == <<"tracecontext", Sep, "baggage">>

\* Configuration().get(name, default)
ConfigGet(cfg, default) == IF cfg = Unset THEN default ELSE cfg

\* str.split(","): the pieces between separators; "" splits into [""].
RECURSIVE Split(_)
Split(s) ==
    IF \A k \in 1..Len(s) : s[k] # Sep
    THEN <<s>>
    ELSE LET k == CHOOSE j \in 1..Len(s) :
                      s[j] = Sep /\ \A h \in 1..(j-1) : s[h] # Sep
         IN  <<SubSeq(s, 1, k-1)>> \o Split(SubSeq(s, k+1, Len(s)))

\* ------------------------------------------------------------------ objects
\* The heap is a sequence of objects; a reference is an index into it.
\* Reference 0 denotes a name that is not bound.
Unbound == 0

CompositeClass == <<"CompositeHTTPPropagator">>
CustomClass == <<"custom">>

Leaf(cls) == [kind |-> "leaf", cls |-> cls, members |-> <<>>]

\* composite.CompositeHTTPPropagator(propagators): holds the given sequence.
CompositeHTTPPropagator(ps) ==
    [kind |-> "composite", cls |-> CompositeClass, members |-> ps]

\* ---------------------------------------------------------------- exceptions
NoExc == [type |-> "none", args |-> <<>>]
\* next() on an exhausted iterator: StopIteration carries no arguments.
StopIteration == [type |-> "StopIteration", args |-> <<>>]
\* What a plugin's import or constructor raises is the plugin's choice: it may
\* or may not mention the entry point name.
PluginErrors(type, name) == {[type |-> type, args |-> a] : a \in {<<>>, <<name>>}}

\* What a member propagator raises from extract or inject.
MemberError(cls) == [type |-> "PropagatorError", args |-> <<cls>>]

\* ------------------------------------------------- carriers and contexts
\* The carrier key (and context key) each propagator class owns.
FieldOf(cls) ==
    CASE cls = <<"tracecontext">> -> "traceparent"
      [] cls = <<"baggage">> -> "baggage"
      [] OTHER -> "x-custom"

Fields == {"traceparent", "baggage", "x-custom"}
Absent == "absent"

\* A carrier is a mapping from keys to values (a dict of headers).
EmptyMap == [f \in Fields |-> Absent]
\* A Context is an immutable mapping; the argument may also be None.
NoneCtx == [none |-> TRUE, map |-> EmptyMap]
Ctx(m) == [none |-> FALSE, map |-> m]
\* The current context used in place of None.
CurrentMap == EmptyMap
MapOf(ctx) == IF ctx.none THEN CurrentMap ELSE ctx.map

\* Getter: (carrier, key) -> list of values, empty when the key is absent.
Getters == {"dict_getter", "blind_getter"}
GetterApply(g, carrier, key) ==
    IF g = "dict_getter" /\ carrier[key] # Absent THEN <<carrier[key]>> ELSE <<>>

\* Setter: (carrier, key, value) -> None, writing into the carrier.
Setters == {"dict_setter"}
SetterApply(s, carrier, key, value) == [carrier EXCEPT ![key] = value]

\* A member's extract that derives its result from the empty context instead
\* of the context it was given.
LeafExtractFromEmpty(cls, getter, carrier, ctx) ==
    LET got == GetterApply(getter, carrier, FieldOf(cls))
    IN  IF got = <<>> THEN ctx
        ELSE Ctx([EmptyMap EXCEPT ![FieldOf(cls)] = got[1]])

\* A member's extract that builds a new context even when its field is absent
\* (an omitted context comes back as the current one).
LeafExtractRebuilds(cls, getter, carrier, ctx) ==
    LET got == GetterApply(getter, carrier, FieldOf(cls))
    IN  Ctx([MapOf(ctx) EXCEPT
               ![FieldOf(cls)] = IF got = <<>> THEN @ ELSE got[1]])

\* A member propagator's extract: the input context when its field is absent,
\* otherwise a new context derived from the input with its field applied.
LeafExtract(cls, getter, carrier, ctx) ==
    LET got == GetterApply(getter, carrier, FieldOf(cls))
    IN  IF got = <<>> THEN ctx
        ELSE Ctx([MapOf(ctx) EXCEPT ![FieldOf(cls)] = got[1]])

\* A member propagator's inject: the writes (key, value) it makes.
LeafInject(cls, ctx) ==
    IF MapOf(ctx)[FieldOf(cls)] = Absent THEN <<>>
    ELSE << <<FieldOf(cls), MapOf(ctx)[FieldOf(cls)]>> >>

RECURSIVE ApplyWrites(_, _, _)
ApplyWrites(s, carrier, ws) ==
    IF ws = <<>> THEN carrier
    ELSE ApplyWrites(s, SetterApply(s, carrier, ws[1][1], ws[1][2]), Tail(ws))

\* The calls the application makes: extract with a carrier that holds both
\* baseline fields, read through a getter that finds them or through one that
\* finds nothing; inject into an empty carrier or into one that holds a field.
ExtractInputs ==
    {[accessor |-> "dict_getter",
      carrier |-> [EmptyMap EXCEPT !["traceparent"] = "v1", !["baggage"] = "v2"],
      context |-> Ctx([EmptyMap EXCEPT !["x-custom"] = "v1"])],
     [accessor |-> "blind_getter",
      carrier |-> [EmptyMap EXCEPT !["traceparent"] = "v2"],
      context |-> NoneCtx]}
InjectInputs ==
    {[accessor |-> "dict_setter",
      carrier |-> EmptyMap,
      context |-> Ctx([EmptyMap EXCEPT !["traceparent"] = "v1", !["baggage"] = "v2"])],
     [accessor |-> "dict_setter",
      carrier |-> [EmptyMap EXCEPT !["traceparent"] = "v2"],
      context |-> Ctx([EmptyMap EXCEPT !["baggage"] = "v1"])]}

Threads == 1..NThreads
CustomRefs == 1..NCustom

\* An extract / inject call in progress: the caller's arguments (accessor,
\* carrier0, context), what the propagator's method works on (acc, carrier,
\* ctx), the propagator read from the registry, the index of the next member,
\* the member invocations and carrier writes made so far, and the outcome
\* (result and exc; fields for a fields() call).
NoFrame ==
    [accessor |-> "none", carrier0 |-> EmptyMap, context |-> NoneCtx,
     acc |-> "none", carrier |-> EmptyMap, ctx |-> NoneCtx,
     prop |-> Unbound, i |-> 0,
     trace |-> <<>>, writes |-> <<>>, result |-> NoneCtx, exc |-> NoExc,
     fields |-> {}]

LogMessage == "Failed to load configured propagators"

VARIABLES
    config,             \* the PROPAGATORS configuration value, or Unset
    import_pc,          \* position of the module's top-level code
    names,              \* the list iterated by the for loop (line 128-130)
    idx,                \* position of the loop in names
    propagators,        \* the list built by the loop (references)
    exc,                \* the exception being handled / propagated
    log,                \* records emitted through logger
    raised,             \* the exception that left the module's top level
    heap,               \* all propagator objects
    _HTTP_TEXT_FORMAT,  \* the module global
    pc,                 \* per thread: position inside the API call
    op,                 \* per thread: the API function the application called
    ret,                \* per thread: the value get_global_textmap returns
    held,               \* per thread: the application's variable PROPAGATOR
    arg,                \* per thread: set_global_textmap's http_text_format
    frame,              \* per thread: the extract / inject call in progress
    passed,             \* history: references given to set_global_textmap
    batch,              \* history: references given to the set_global_textmap
                        \* calls begun since no such call was last running
    returned_set,       \* history: argument of the set_global_textmap call
                        \* that returned last, 0 once another one begins
    quiet,              \* history: that call overlapped no other one
    overlapped,         \* history, per thread: the running set_global_textmap
                        \* call overlapped another one
    calls,              \* history: API calls and configuration changes made
                        \* by the application so far
    window              \* history, per thread: returned_set and quiet when the
                        \* running get_global_textmap call began

importVars == <<config, import_pc, names, idx, propagators, exc, log, raised>>
threadVars == <<pc, op, ret, held, arg, frame>>
historyVars == <<passed, batch, returned_set, quiet, overlapped, calls, window>>
vars == <<config, import_pc, names, idx, propagators, exc, log, raised,
          heap, _HTTP_TEXT_FORMAT, pc, op, ret, held, arg, frame,
          passed, batch, returned_set, quiet, overlapped, calls, window>>

NoWindow == [p |-> Unbound, quiet |-> FALSE]

Init ==
    /\ config \in Strings \cup {Unset}
    /\ import_pc = "start"
    /\ names = <<>>
    /\ idx = 0
    /\ propagators = <<>>
    /\ exc = NoExc
    /\ log = <<>>
    /\ raised = NoExc
    /\ heap = [i \in 1..NCustom |-> Leaf(CustomClass)]
    /\ _HTTP_TEXT_FORMAT = Unbound
    /\ pc = [t \in Threads |-> "idle"]
    /\ op = [t \in Threads |-> "none"]
    /\ ret = [t \in Threads |-> Unbound]
    /\ held = [t \in Threads |-> Unbound]
    /\ arg = [t \in Threads |-> Unbound]
    /\ frame = [t \in Threads |-> NoFrame]
    /\ passed = {}
    /\ batch = {}
    /\ returned_set = Unbound
    /\ quiet = FALSE
    /\ overlapped = [t \in Threads |-> FALSE]
    /\ calls = 0
    /\ window = [t \in Threads |-> NoWindow]

\* ------------------------------------------------------ module initialization
\* Lines 126-130: propagators = []; the configuration is read and split once.
ImportStart ==
    /\ import_pc = "start"
    /\ propagators' = <<>>
    /\ names' = Split(ConfigGet(config, DefaultPropagators))
    /\ idx' = 1
    /\ import_pc' = "loop"
    /\ UNCHANGED <<config, exc, log, raised, heap, _HTTP_TEXT_FORMAT>>
    /\ UNCHANGED <<threadVars, historyVars>>

\* The outcomes of next(iter_entry_points(group, name)).load()() for a name.
Outcomes(name) ==
    IF name \in EntryPointNames
    THEN {"ok", "missing", "load_fails", "constructor_fails"}
    ELSE {"missing"}

ExceptionOf(outcome, name) ==
    CASE outcome = "missing" -> {StopIteration}
      [] outcome = "load_fails" -> PluginErrors("ImportError", name)
      [] outcome = "constructor_fails" -> PluginErrors("Exception", name)
      [] OTHER -> {}

\* The instance put at the front of the list.
ListPrepend(ps, ref) == <<ref>> \o ps

\* Line 132: propagators.append(instance).
ListAppend(ps, ref) == Append(ps, ref)

\* Lines 128-136, one iteration: resolve the name, load the class, call it and
\* append the instance; any exception enters the handler of line 138.
ImportLoadPropagator ==
    /\ import_pc = "loop"
    /\ idx <= Len(names)
    /\ \E outcome \in Outcomes(names[idx]) :
         IF outcome = "ok"
         THEN /\ heap' = Append(heap, Leaf(names[idx]))
              /\ propagators' = ListAppend(propagators, Len(heap) + 1)
              /\ idx' = idx + 1
              /\ UNCHANGED <<import_pc, exc>>
         ELSE /\ \E e \in ExceptionOf(outcome, names[idx]) : exc' = e
              /\ import_pc' = "except"
              /\ UNCHANGED <<heap, propagators, idx>>
    /\ UNCHANGED <<config, names, log, raised, _HTTP_TEXT_FORMAT>>
    /\ UNCHANGED <<threadVars, historyVars>>

\* Line 139: logger.exception(msg) emits the message with the exception that is
\* being handled attached.
ImportLogException ==
    /\ import_pc = "except"
    /\ log' = Append(log, [msg |-> LogMessage, msg_args |-> <<>>,
                            exc_info |-> exc])
    /\ import_pc' = "raise"
    /\ UNCHANGED <<config, names, idx, propagators, exc, raised, heap,
                   _HTTP_TEXT_FORMAT>>
    /\ UNCHANGED <<threadVars, historyVars>>

\* Line 140 left out: the handler ends, and line 142 installs a composite of
\* the propagators collected so far.
ImportSwallow ==
    /\ import_pc = "raise"
    /\ heap' = Append(heap, CompositeHTTPPropagator(propagators))
    /\ _HTTP_TEXT_FORMAT' = Len(heap) + 1
    /\ import_pc' = "done"
    /\ UNCHANGED <<config, names, idx, propagators, exc, log, raised>>
    /\ UNCHANGED <<threadVars, historyVars>>

\* Line 140: a bare raise re-raises the exception being handled; the import of
\* the module fails and nothing after line 140 runs.
ImportReraise ==
    /\ import_pc = "raise"
    /\ raised' = exc
    /\ import_pc' = "failed"
    /\ UNCHANGED <<config, names, idx, propagators, exc, log, heap,
                   _HTTP_TEXT_FORMAT>>
    /\ UNCHANGED <<threadVars, historyVars>>

\* Line 142, reached when the loop is exhausted.
ImportInstall ==
    /\ import_pc = "loop"
    /\ idx > Len(names)
    /\ heap' = Append(heap, CompositeHTTPPropagator(propagators))
    /\ _HTTP_TEXT_FORMAT' = Len(heap) + 1
    /\ import_pc' = "done"
    /\ UNCHANGED <<config, names, idx, propagators, exc, log, raised>>
    /\ UNCHANGED <<threadVars, historyVars>>

\* The values the application may give PROPAGATORS while the process runs.
NewConfigs == {Unset, <<"baggage">>}

\* The application changes the configuration that line 129 has already read
\* (it sets or deletes the PROPAGATORS variable).
ChangeConfig(c) ==
    /\ import_pc # "start"
    /\ calls < MaxCalls
    /\ c # config
    /\ config' = c
    /\ calls' = calls + 1
    /\ UNCHANGED <<import_pc, names, idx, propagators, exc, log, raised,
                   heap, _HTTP_TEXT_FORMAT, threadVars,
                   passed, batch, returned_set, quiet, overlapped, window>>

\* ------------------------------------------------------------- the registry
\* The functions of lines 84-151 exist only once the module's top-level code
\* has run to its end.
Imported == import_pc = "done"

\* A get_global_textmap call begins (history only).
OpenWindow(t) ==
    window' = [window EXCEPT ![t] = [p |-> returned_set, quiet |-> quiet]]

\* The application calls get_global_textmap() (line 145).
GetCall(t) ==
    /\ Imported
    /\ pc[t] = "idle"
    /\ calls < MaxCalls
    /\ calls' = calls + 1
    /\ op' = [op EXCEPT ![t] = "get"]
    /\ pc' = [pc EXCEPT ![t] = "get"]
    /\ OpenWindow(t)
    /\ UNCHANGED <<importVars, heap, _HTTP_TEXT_FORMAT, ret, held, arg, frame,
                   passed, batch, returned_set, quiet, overlapped>>

\* Line 146, LOAD_GLOBAL: the value read, or NameError for an unbound name.
LoadGlobal(global) ==
    IF global = Unbound
    THEN [value |-> Unbound, exc |-> [type |-> "NameError", args |-> <<>>]]
    ELSE [value |-> global, exc |-> NoExc]

\* The read made to wait until no set_global_textmap call is running.
GetLoadLocked(t) ==
    /\ pc[t] = "get"
    /\ \A u \in Threads : op[u] # "set"
    /\ ret' = [ret EXCEPT ![t] = LoadGlobal(_HTTP_TEXT_FORMAT).value]
    /\ frame' = [frame EXCEPT ![t].exc = LoadGlobal(_HTTP_TEXT_FORMAT).exc]
    /\ pc' = [pc EXCEPT ![t] = "get_ret"]
    /\ UNCHANGED <<importVars, heap, _HTTP_TEXT_FORMAT, op, held, arg,
                   historyVars>>

\* Line 146: return _HTTP_TEXT_FORMAT, the read.
GetLoad(t) ==
    /\ pc[t] = "get"
    /\ ret' = [ret EXCEPT ![t] = LoadGlobal(_HTTP_TEXT_FORMAT).value]
    /\ frame' = [frame EXCEPT ![t].exc = LoadGlobal(_HTTP_TEXT_FORMAT).exc]
    /\ pc' = [pc EXCEPT ![t] = "get_ret"]
    /\ UNCHANGED <<importVars, heap, _HTTP_TEXT_FORMAT, op, held, arg,
                   historyVars>>

\* PROPAGATOR = propagators.get_global_textmap() (docstring, line 40): the
\* call returns to the application, which keeps the reference.
GetReturn(t) ==
    /\ pc[t] = "get_ret"
    /\ op[t] = "get"
    /\ held' = [held EXCEPT ![t] = ret[t]]
    /\ pc' = [pc EXCEPT ![t] = "idle"]
    /\ op' = [op EXCEPT ![t] = "none"]
    /\ ret' = [ret EXCEPT ![t] = Unbound]
    /\ frame' = [frame EXCEPT ![t] = NoFrame]
    /\ window' = [window EXCEPT ![t] = NoWindow]
    /\ UNCHANGED <<importVars, heap, _HTTP_TEXT_FORMAT, arg,
                   passed, batch, returned_set, quiet, overlapped, calls>>

\* The propagators an application thread may hand to set_global_textmap: its
\* own custom propagators, or one it obtained from get_global_textmap before.
Installable(t) == CustomRefs \cup (IF held[t] = Unbound THEN {} ELSE {held[t]})

\* The application calls set_global_textmap(p) (line 149).
SetCall(t, p) ==
    /\ Imported
    /\ pc[t] = "idle"
    /\ calls < MaxCalls
    /\ calls' = calls + 1
    /\ p \in Installable(t)
    /\ op' = [op EXCEPT ![t] = "set"]
    /\ pc' = [pc EXCEPT ![t] = "set"]
    /\ arg' = [arg EXCEPT ![t] = p]
    /\ passed' = passed \cup {p}
    /\ batch' = IF \A u \in Threads : op[u] # "set" THEN {p}
                 ELSE batch \cup {p}
    /\ returned_set' = Unbound
    /\ quiet' = FALSE
    /\ overlapped' = [u \in Threads |->
                        IF u = t THEN \E v \in Threads \ {t} : op[v] = "set"
                        ELSE op[u] = "set"]
    /\ window' = [u \in Threads |-> NoWindow]
    /\ UNCHANGED <<importVars, heap, _HTTP_TEXT_FORMAT, ret, held, frame>>

\* Line 150 left out: without the global statement line 151 binds a local
\* name and the module global keeps its value.
StoreLocal(old, new) == old

\* Line 151, STORE_GLOBAL: the name is rebound to the argument, whole.
StoreGlobal(old, new) == new

\* The installed object updated in place from the argument, instead of the
\* name being rebound.
HeapUpdatedInPlace(h, old, new) == [h EXCEPT ![old] = h[new]]

\* Line 151 rebinds a name: no object is modified, neither the propagator
\* that was installed nor the one that is.
HeapAfterStore(h, old, new) == h

\* Line 151: _HTTP_TEXT_FORMAT = http_text_format.
SetStore(t) ==
    /\ pc[t] = "set"
    /\ _HTTP_TEXT_FORMAT' = StoreGlobal(_HTTP_TEXT_FORMAT, arg[t])
    /\ heap' = HeapAfterStore(heap, _HTTP_TEXT_FORMAT, arg[t])
    /\ pc' = [pc EXCEPT ![t] = "set_ret"]
    /\ UNCHANGED <<importVars, op, ret, held, arg, frame, historyVars>>

\* set_global_textmap returns None to the application.
SetReturn(t) ==
    /\ pc[t] = "set_ret"
    /\ pc' = [pc EXCEPT ![t] = "idle"]
    /\ op' = [op EXCEPT ![t] = "none"]
    /\ arg' = [arg EXCEPT ![t] = Unbound]
    /\ returned_set' = arg[t]
    /\ quiet' = ~overlapped[t]
    /\ overlapped' = [overlapped EXCEPT ![t] = FALSE]
    /\ UNCHANGED <<importVars, heap, _HTTP_TEXT_FORMAT, ret, held, frame,
                   passed, batch, calls, window>>

\* ------------------------------------------------- module-level extract/inject
\* The application calls extract(get_from_carrier, carrier, context) (line 84);
\* line 102 first calls get_global_textmap().
ExtractCall(t, getter, carrier, context) ==
    /\ Imported
    /\ pc[t] = "idle"
    /\ calls < MaxCalls
    /\ calls' = calls + 1
    /\ op' = [op EXCEPT ![t] = "extract"]
    /\ pc' = [pc EXCEPT ![t] = "get"]
    /\ frame' = [frame EXCEPT ![t] =
                   [NoFrame EXCEPT !.accessor = getter, !.carrier0 = carrier,
                                   !.carrier = carrier, !.context = context]]
    /\ OpenWindow(t)
    /\ UNCHANGED <<importVars, heap, _HTTP_TEXT_FORMAT, ret, held, arg,
                   passed, batch, returned_set, quiet, overlapped>>

\* The application calls inject(set_in_carrier, carrier, context) (line 105);
\* line 121 first calls get_global_textmap().
InjectCall(t, setter, carrier, context) ==
    /\ Imported
    /\ pc[t] = "idle"
    /\ calls < MaxCalls
    /\ calls' = calls + 1
    /\ op' = [op EXCEPT ![t] = "inject"]
    /\ pc' = [pc EXCEPT ![t] = "get"]
    /\ frame' = [frame EXCEPT ![t] =
                   [NoFrame EXCEPT !.accessor = setter, !.carrier0 = carrier,
                                   !.carrier = carrier, !.context = context]]
    /\ OpenWindow(t)
    /\ UNCHANGED <<importVars, heap, _HTTP_TEXT_FORMAT, ret, held, arg,
                   passed, batch, returned_set, quiet, overlapped>>

\* Line 102 with the context argument left out: the propagator's extract gets
\* its default, None.
ExtractArgsNoContext(f) ==
    [accessor |-> f.accessor, carrier |-> f.carrier0, context |-> NoneCtx]

\* Line 102: the arguments handed to <propagator>.extract(...).
ExtractArgs(f) ==
    [accessor |-> f.accessor, carrier |-> f.carrier0, context |-> f.context]

\* Line 121 with the context argument left out.
InjectArgsNoContext(f) ==
    [accessor |-> f.accessor, carrier |-> f.carrier0, context |-> NoneCtx]

\* Line 121: the arguments handed to <propagator>.inject(...).
InjectArgs(f) ==
    [accessor |-> f.accessor, carrier |-> f.carrier0, context |-> f.context]

\* Lines 102 / 121 followed by a rebinding of the global to the propagator
\* the call obtained (global _HTTP_TEXT_FORMAT; _HTTP_TEXT_FORMAT = p).
DispatchStoresBack(t) ==
    /\ pc[t] = "get_ret"
    /\ op[t] \in {"extract", "inject"}
    /\ LET a == IF op[t] = "extract" THEN ExtractArgs(frame[t])
                ELSE InjectArgs(frame[t])
       IN  IF frame[t].exc # NoExc
           THEN /\ pc' = [pc EXCEPT ![t] = "done"]
                /\ UNCHANGED <<frame, _HTTP_TEXT_FORMAT>>
           ELSE /\ pc' = [pc EXCEPT ![t] = "call"]
                /\ frame' = [frame EXCEPT ![t].prop = ret[t], ![t].i = 1,
                                          ![t].ctx = a.context,
                                          ![t].carrier = a.carrier,
                                          ![t].acc = a.accessor]
                /\ _HTTP_TEXT_FORMAT' = ret[t]
    /\ ret' = [ret EXCEPT ![t] = Unbound]
    /\ window' = [window EXCEPT ![t] = NoWindow]
    /\ UNCHANGED <<importVars, heap, op, held, arg,
                   passed, batch, returned_set, quiet, overlapped, calls>>

\* Lines 102 / 121 with the method called on a second read of the global
\* instead of on the value get_global_textmap() returned.
DispatchRereads(t) ==
    /\ pc[t] = "get_ret"
    /\ op[t] \in {"extract", "inject"}
    /\ LET a == IF op[t] = "extract" THEN ExtractArgs(frame[t])
                ELSE InjectArgs(frame[t])
       IN  IF frame[t].exc # NoExc
           THEN /\ pc' = [pc EXCEPT ![t] = "done"]
                /\ UNCHANGED frame
           ELSE /\ pc' = [pc EXCEPT ![t] = "call"]
                /\ frame' = [frame EXCEPT ![t].prop = _HTTP_TEXT_FORMAT,
                                          ![t].i = 1,
                                          ![t].ctx = a.context,
                                          ![t].carrier = a.carrier,
                                          ![t].acc = a.accessor]
    /\ ret' = [ret EXCEPT ![t] = Unbound]
    /\ window' = [window EXCEPT ![t] = NoWindow]
    /\ UNCHANGED <<importVars, heap, _HTTP_TEXT_FORMAT, op, held, arg,
                   passed, batch, returned_set, quiet, overlapped, calls>>

\* Lines 102 / 121: get_global_textmap() has returned; the method of the
\* propagator it returned is called with the caller's arguments.
Dispatch(t) ==
    /\ pc[t] = "get_ret"
    /\ op[t] \in {"extract", "inject"}
    /\ LET a == IF op[t] = "extract" THEN ExtractArgs(frame[t])
                ELSE InjectArgs(frame[t])
       IN  IF frame[t].exc # NoExc
           THEN /\ pc' = [pc EXCEPT ![t] = "done"]
                /\ UNCHANGED frame
           ELSE /\ pc' = [pc EXCEPT ![t] = "call"]
                /\ frame' = [frame EXCEPT ![t].prop = ret[t], ![t].i = 1,
                                          ![t].ctx = a.context,
                                          ![t].carrier = a.carrier,
                                          ![t].acc = a.accessor]
    /\ ret' = [ret EXCEPT ![t] = Unbound]
    /\ window' = [window EXCEPT ![t] = NoWindow]
    /\ UNCHANGED <<importVars, heap, _HTTP_TEXT_FORMAT, op, held, arg,
                   passed, batch, returned_set, quiet, overlapped, calls>>

\* The propagators a call on the object is carried out by: the members of a
\* composite in their order, or the propagator itself.
Targets(h, ref) ==
    IF h[ref].kind = "composite" THEN h[ref].members ELSE <<ref>>

\* Every member is handed the caller's context, in extract too.
NextContextOfCaller(o, ctx_in, ctx_out) == ctx_in

\* The context the composite hands to the next member: extract folds, inject
\* hands every member the context it was called with.
NextContext(o, ctx_in, ctx_out) == IF o = "extract" THEN ctx_out ELSE ctx_in

\* Lines 102 / 121 wrapped in a handler that drops the exception.
ModuleOutcomeSuppressed(o, inner) == [result |-> inner.result, exc |-> NoExc]

\* What the module-level function hands to its caller, given what the
\* propagator's method produced: extract returns it (line 102), inject
\* returns None (line 121); neither handles an exception.
ModuleOutcome(o, inner) ==
    IF o = "extract" THEN inner
    ELSE [result |-> NoneCtx, exc |-> inner.exc]

\* One member's extract or inject is invoked; it returns or raises.  A raise
\* ends the propagator's method and the module-level function.
Invoke(t) ==
    /\ pc[t] = "call"
    /\ frame[t].i <= Len(Targets(heap, frame[t].prop))
    /\ LET f == frame[t]
           m == Targets(heap, f.prop)[f.i]
           cls == heap[m].cls
       IN  \E raises \in BOOLEAN :
             LET out == IF op[t] = "extract" /\ ~raises
                        THEN LeafExtract(cls, f.acc, f.carrier, f.ctx)
                        ELSE NoneCtx
                 ws == IF op[t] = "inject" /\ ~raises
                       THEN LeafInject(cls, f.ctx) ELSE <<>>
                 rec == [member |-> m, accessor |-> f.acc,
                         carrier |-> f.carrier, ctx_in |-> f.ctx,
                         ctx_out |-> out, raised |-> raises]
                 end == ModuleOutcome(op[t], [result |-> NoneCtx,
                                              exc |-> MemberError(cls)])
             IN  IF raises
                 THEN /\ frame' = [frame EXCEPT ![t].trace = Append(f.trace, rec),
                                                ![t].result = end.result,
                                                ![t].exc = end.exc]
                      /\ pc' = [pc EXCEPT ![t] = "done"]
                 ELSE /\ frame' = [frame EXCEPT
                              ![t].trace = Append(f.trace, rec),
                              ![t].i = f.i + 1,
                              ![t].ctx = NextContext(op[t], f.ctx, out),
                              ![t].carrier = ApplyWrites(f.acc, f.carrier, ws),
                              ![t].writes = f.writes \o ws]
                      /\ UNCHANGED pc
    /\ UNCHANGED <<importVars, heap, _HTTP_TEXT_FORMAT, op, ret, held, arg,
                   historyVars>>

\* Every member has returned: the propagator's method returns, and so does the
\* module-level function.
Finish(t) ==
    /\ pc[t] = "call"
    /\ frame[t].i > Len(Targets(heap, frame[t].prop))
    /\ LET end == ModuleOutcome(op[t], [result |-> frame[t].ctx, exc |-> NoExc])
       IN  frame' = [frame EXCEPT ![t].result = end.result, ![t].exc = end.exc]
    /\ pc' = [pc EXCEPT ![t] = "done"]
    /\ UNCHANGED <<importVars, heap, _HTTP_TEXT_FORMAT, op, ret, held, arg,
                   historyVars>>

\* The application takes the result (or the exception) and goes on.
Resume(t) ==
    /\ pc[t] = "done"
    /\ pc' = [pc EXCEPT ![t] = "idle"]
    /\ op' = [op EXCEPT ![t] = "none"]
    /\ frame' = [frame EXCEPT ![t] = NoFrame]
    /\ UNCHANGED <<importVars, heap, _HTTP_TEXT_FORMAT, ret, held, arg,
                   historyVars>>

\* --------------------------------------------- a propagator used directly
\* The application may also hold a propagator and call its methods itself
\* (PROPAGATOR.extract / PROPAGATOR.inject in the docstring example); the
\* propagator contract has a third method, fields().
Values == {"v1", "v2"}
Carriers == [Fields -> Values \cup {Absent}]
Contexts == {NoneCtx} \cup {Ctx(m) : m \in Carriers}
PropagatorClasses == EntryPointNames \cup {CustomClass}
MemberLists == UNION {[1..n -> PropagatorClasses] : n \in 0..MaxMembers}

\* A member propagator's fields(): the carrier keys it reads and writes.
LeafFields(cls) == {FieldOf(cls)}

\* fields() that reports the last member's fields only.
CompositeFieldsOfLast(h, ms) ==
    IF ms = <<>> THEN {} ELSE LeafFields(h[ms[Len(ms)]].cls)

\* The composite's fields(): the members' fields() collected into one set,
\* member by member.
RECURSIVE CompositeFields(_, _)
CompositeFields(h, ms) ==
    IF ms = <<>> THEN {}
    ELSE LeafFields(h[Head(ms)].cls) \cup CompositeFields(h, Tail(ms))

\* The composite's extract as one function of its arguments: the fold over
\* the members ms, left to right.
RECURSIVE CompositeExtract(_, _, _, _, _)
CompositeExtract(h, ms, getter, carrier, ctx) ==
    IF ms = <<>> THEN ctx
    ELSE CompositeExtract(h, Tail(ms), getter, carrier,
             NextContext("extract", ctx,
                         LeafExtract(h[Head(ms)].cls, getter, carrier, ctx)))

\* The composite's inject as one function of its arguments: the carrier
\* after every member of ms, in order, has written for the same context.
RECURSIVE CompositeInject(_, _, _, _, _)
CompositeInject(h, ms, setter, carrier, ctx) ==
    IF ms = <<>> THEN carrier
    ELSE CompositeInject(h, Tail(ms), setter,
             ApplyWrites(setter, carrier, LeafInject(h[Head(ms)].cls, ctx)),
             NextContext("inject", ctx, NoneCtx))

\* The state in which the application uses a propagator of its own: the
\* import has succeeded under the default configuration, and thread 1 has
\* built a composite over instances of its choice and holds it.
InitDirect ==
    \E ms \in MemberLists :
        LET dn == Split(DefaultPropagators)
            n == Len(dn)
            first == [k \in 1..n |-> NCustom + k]
            own == [k \in 1..Len(ms) |-> NCustom + n + 1 + k]
        IN  /\ config = Unset
            /\ import_pc = "done"
            /\ names = dn
            /\ idx = n + 1
            /\ propagators = first
            /\ exc = NoExc
            /\ log = <<>>
            /\ raised = NoExc
            /\ heap = [i \in 1..NCustom |-> Leaf(CustomClass)]
                      \o [k \in 1..n |-> Leaf(dn[k])]
                      \o <<CompositeHTTPPropagator(first)>>
                      \o [k \in 1..Len(ms) |-> Leaf(ms[k])]
                      \o <<CompositeHTTPPropagator(own)>>
            /\ _HTTP_TEXT_FORMAT = NCustom + n + 1
            /\ pc = [t \in Threads |-> "idle"]
            /\ op = [t \in Threads |-> "none"]
            /\ ret = [t \in Threads |-> Unbound]
            /\ held = [t \in Threads |->
                         IF t = 1 THEN NCustom + n + 1 + Len(ms) + 1
                         ELSE Unbound]
            /\ arg = [t \in Threads |-> Unbound]
            /\ frame = [t \in Threads |-> NoFrame]
            /\ passed = {}
            /\ batch = {}
            /\ returned_set = Unbound
            /\ quiet = FALSE
            /\ overlapped = [t \in Threads |-> FALSE]
            /\ calls = 0
            /\ window = [t \in Threads |-> NoWindow]

\* PROPAGATOR.extract(getter, carrier, context): the method of the held
\* propagator is entered with the caller's arguments.
DirectExtract(t) ==
    /\ Imported
    /\ pc[t] = "idle"
    /\ held[t] # Unbound
    /\ op' = [op EXCEPT ![t] = "extract"]
    /\ pc' = [pc EXCEPT ![t] = "call"]
    /\ \E getter \in Getters, carrier \in Carriers, context \in Contexts :
         frame' = [frame EXCEPT ![t] =
                     [NoFrame EXCEPT !.accessor = getter, !.carrier0 = carrier,
                                     !.context = context, !.acc = getter,
                                     !.carrier = carrier, !.ctx = context,
                                     !.prop = held[t], !.i = 1]]
    /\ UNCHANGED <<importVars, heap, _HTTP_TEXT_FORMAT, ret, held, arg,
                   historyVars>>

\* PROPAGATOR.inject(setter, carrier, context=context).
DirectInject(t) ==
    /\ Imported
    /\ pc[t] = "idle"
    /\ held[t] # Unbound
    /\ op' = [op EXCEPT ![t] = "inject"]
    /\ pc' = [pc EXCEPT ![t] = "call"]
    /\ \E setter \in Setters, carrier \in Carriers, context \in Contexts :
         frame' = [frame EXCEPT ![t] =
                     [NoFrame EXCEPT !.accessor = setter, !.carrier0 = carrier,
                                     !.context = context, !.acc = setter,
                                     !.carrier = carrier, !.ctx = context,
                                     !.prop = held[t], !.i = 1]]
    /\ UNCHANGED <<importVars, heap, _HTTP_TEXT_FORMAT, ret, held, arg,
                   historyVars>>

\* PROPAGATOR.fields(): computed from the members, nothing is written.
DirectFields(t) ==
    /\ Imported
    /\ pc[t] = "idle"
    /\ held[t] # Unbound
    /\ op' = [op EXCEPT ![t] = "fields"]
    /\ pc' = [pc EXCEPT ![t] = "done"]
    /\ frame' = [frame EXCEPT ![t] =
                   [NoFrame EXCEPT
                      !.prop = held[t],
                      !.fields = CompositeFields(heap, Targets(heap, held[t]))]]
    /\ UNCHANGED <<importVars, heap, _HTTP_TEXT_FORMAT, ret, held, arg,
                   historyVars>>

\* ------------------------------------------------------------------ claims
\* The reference line 142 binds: objects are created in the order custom
\* propagators, one instance per collected name, the composite.
InitialComposite == NCustom + Len(propagators) + 1

\* The object a reference denoted when it was created.
AsCreated(r) ==
    IF r \in CustomRefs THEN Leaf(CustomClass)
    ELSE CompositeHTTPPropagator(propagators)

\* C1 as stated: a get_global_textmap call that starts after
\* set_global_textmap(p) has returned, and reads the registry before another
\* set_global_textmap call begins, returns p.
C1_AsStated ==
    \A t \in Threads :
        (pc[t] = "get_ret" /\ window[t].p # Unbound) => ret[t] = window[t].p

\* C1 amended: a get_global_textmap call that starts after
\* set_global_textmap(p) has returned, and reads the registry before another
\* set_global_textmap call begins, returns p, provided that no other
\* set_global_textmap call was running while set_global_textmap(p) ran.
C1_GetAfterSet ==
    \A t \in Threads :
        (pc[t] = "get_ret" /\ window[t].p # Unbound /\ window[t].quiet)
            => ret[t] = window[t].p

\* A get that began after an undisturbed set_global_textmap(p) returned has
\* read p, which is not the propagator installed at import.
C1_Witness ==
    \E t \in Threads :
        /\ pc[t] = "get_ret" /\ op[t] = "get"
        /\ window[t].p # Unbound /\ window[t].quiet
        /\ ret[t] = window[t].p
        /\ ret[t] # InitialComposite

\* C2: every value get_global_textmap returns is the composite installed by
\* the initialization or a propagator that was passed to some
\* set_global_textmap call, and the object it denotes is whole: exactly as it
\* was created.
C2_OldOrNew ==
    \A t \in Threads :
        pc[t] = "get_ret" =>
            /\ ret[t] \in {InitialComposite} \cup passed
            /\ heap[ret[t]] = AsCreated(ret[t])

\* A get that ran while a set_global_textmap(new) call of another thread was
\* between its store and its return has read the new propagator.
C2_Witness ==
    \E t, u \in Threads :
        /\ pc[t] = "get_ret" /\ pc[u] = "set_ret"
        /\ ret[t] = arg[u] /\ ret[t] # InitialComposite
        /\ heap[ret[t]] = Leaf(CustomClass)

\* C3: once resolving or constructing a configured name has failed, whatever
\* its position in the list, the initialization ends in failure: the module
\* global stays unbound, no composite exists, and no API function is there to
\* be called.
C3_FailsAsAWhole ==
    exc # NoExc =>
        /\ import_pc \in {"except", "raise", "failed"}
        /\ _HTTP_TEXT_FORMAT = Unbound
        /\ \A r \in 1..Len(heap) : heap[r].kind # "composite"
        /\ \A t \in Threads : pc[t] = "idle"

\* The initialization has failed on the second name, after the first one
\* resolved and its instance was collected.
C3_Witness ==
    /\ import_pc = "failed"
    /\ idx = 2 /\ Len(names) = 2
    /\ Len(propagators) = 1
    /\ _HTTP_TEXT_FORMAT = Unbound

\* C4: when the initialization succeeds for the names n1..nk, the composite
\* it installs has exactly k members, the i-th being an instance of the class
\* the entry point of ni loads; the instances are k different objects, made by
\* the initialization.
C4_OnePerNameInOrder ==
    import_pc = "done" =>
        LET c == heap[InitialComposite] IN
        /\ calls = 0 => _HTTP_TEXT_FORMAT = InitialComposite
        /\ Len(c.members) = Len(names)
        /\ \A i \in 1..Len(names) :
              /\ c.members[i] \in 1..Len(heap)
              /\ c.members[i] \notin CustomRefs
              /\ heap[c.members[i]] = Leaf(names[i])
        /\ \A i, j \in 1..Len(names) :
              i # j => c.members[i] # c.members[j]

\* The initialization succeeded for the same name given twice: the installed
\* composite has two members, different instances of the same class.
C4_Witness ==
    /\ import_pc = "done"
    /\ Len(names) = 2
    /\ names[1] = <<"baggage">> /\ names[2] = <<"baggage">>
    /\ _HTTP_TEXT_FORMAT = InitialComposite
    /\ Len(heap[InitialComposite].members) = 2
    /\ heap[InitialComposite].members[1] # heap[InitialComposite].members[2]
    /\ heap[heap[InitialComposite].members[2]] = Leaf(<<"baggage">>)

\* The threads inside a propagator's extract / inject, or back from it.
InMethod(t, o) ==
    /\ op[t] = o
    /\ pc[t] \in {"call", "done"}
    /\ frame[t].prop # Unbound

Returned(t) == pc[t] = "done" /\ frame[t].exc = NoExc

\* C5: composite extract is a left-to-right fold: the members are invoked in
\* their order, each once, with the caller's getter and carrier; the first
\* receives the caller's context, each later one the context the member before
\* it returned, and the result is the context the last one returned.
C5_ExtractFolds ==
    \A t \in Threads :
        (InMethod(t, "extract") /\ heap[frame[t].prop].kind = "composite") =>
            LET f == frame[t]
                ms == heap[f.prop].members
                tr == f.trace
            IN  /\ Len(tr) <= Len(ms)
                /\ \A k \in 1..Len(tr) :
                      /\ tr[k].member = ms[k]
                      /\ tr[k].accessor = f.accessor
                      /\ tr[k].carrier = f.carrier0
                      /\ tr[k].ctx_in =
                            IF k = 1 THEN f.context ELSE tr[k-1].ctx_out
                /\ Returned(t) =>
                      /\ Len(tr) = Len(ms)
                      /\ f.result = tr[Len(tr)].ctx_out

\* An extract through a composite of two members has returned: the first
\* member enriched the caller's context, the second received the enriched
\* context and enriched it again.
C5_Witness ==
    \E t \in Threads :
        /\ InMethod(t, "extract") /\ Returned(t)
        /\ heap[frame[t].prop].kind = "composite"
        /\ Len(frame[t].trace) = 2
        /\ frame[t].trace[1].ctx_out # frame[t].trace[1].ctx_in
        /\ frame[t].trace[2].ctx_in = frame[t].trace[1].ctx_out
        /\ frame[t].trace[2].ctx_out # frame[t].trace[2].ctx_in
        /\ frame[t].result = frame[t].trace[2].ctx_out

\* The writes the first k of the members make for a context, in member order.
RECURSIVE WritesOf(_, _, _, _)
WritesOf(h, ms, ctx, k) ==
    IF k = 0 THEN <<>>
    ELSE WritesOf(h, ms, ctx, k - 1) \o LeafInject(h[ms[k]].cls, ctx)

\* C6: composite inject invokes the members in their order, each once, every
\* one with the caller's unmodified context and the caller's carrier, which
\* holds the writes of the members before it; the writes reach the carrier in
\* member order.
C6_InjectSameContext ==
    \A t \in Threads :
        (InMethod(t, "inject") /\ heap[frame[t].prop].kind = "composite") =>
            LET f == frame[t]
                ms == heap[f.prop].members
                tr == f.trace
            IN  /\ Len(tr) <= Len(ms)
                /\ \A k \in 1..Len(tr) :
                      /\ tr[k].member = ms[k]
                      /\ tr[k].accessor = f.accessor
                      /\ tr[k].ctx_in = f.context
                      /\ tr[k].carrier =
                            ApplyWrites(f.accessor, f.carrier0,
                                        WritesOf(heap, ms, f.context, k - 1))
                /\ f.writes = WritesOf(heap, ms, f.context, f.i - 1)
                /\ f.carrier = ApplyWrites(f.accessor, f.carrier0, f.writes)
                /\ Returned(t) => Len(tr) = Len(ms)

\* An inject through a composite of tracecontext and baggage has returned:
\* both wrote, traceparent first.
C6_Witness ==
    \E t \in Threads :
        /\ InMethod(t, "inject") /\ Returned(t)
        /\ heap[frame[t].prop].kind = "composite"
        /\ Len(frame[t].trace) = 2
        /\ frame[t].writes = << <<"traceparent", "v1">>, <<"baggage", "v2">> >>
        /\ frame[t].carrier0 = EmptyMap
        /\ frame[t].carrier["traceparent"] = "v1"
        /\ frame[t].carrier["baggage"] = "v2"

\* C7: when a member raises during extract or inject, it is the last member
\* invoked in that call (none after it is invoked, it is not invoked again and
\* no member before it was skipped), and the caller of the module-level
\* function gets that member's exception, unchanged.
C7_FailurePropagates ==
    \A t \in Threads :
        (InMethod(t, "extract") \/ InMethod(t, "inject")) =>
            LET f == frame[t]
                ms == Targets(heap, f.prop)
                tr == f.trace
            IN  /\ Len(tr) <= Len(ms)
                /\ \A k \in 1..Len(tr) :
                      /\ tr[k].member = ms[k]
                      /\ tr[k].raised =>
                            /\ k = Len(tr)
                            /\ pc[t] = "done"
                            /\ f.exc = MemberError(heap[tr[k].member].cls)
                /\ (pc[t] = "done" /\ f.exc # NoExc) =>
                      /\ Len(tr) >= 1
                      /\ tr[Len(tr)].raised

\* The first of two members raised: the call is over, the second member was
\* not invoked, and the caller holds the exception.
C7_Witness ==
    \E t \in Threads :
        /\ InMethod(t, "extract")
        /\ pc[t] = "done"
        /\ Len(Targets(heap, frame[t].prop)) = 2
        /\ Len(frame[t].trace) = 1
        /\ frame[t].trace[1].raised
        /\ frame[t].exc = MemberError(heap[frame[t].trace[1].member].cls)

\* C8: a step that changes the registry changes neither a reference a caller
\* obtained from get_global_textmap earlier, nor the object that reference
\* denotes, nor the object that was installed.
C8_HeldReferenceKept ==
    [][ _HTTP_TEXT_FORMAT' # _HTTP_TEXT_FORMAT /\ _HTTP_TEXT_FORMAT # Unbound =>
          /\ heap'[_HTTP_TEXT_FORMAT] = heap[_HTTP_TEXT_FORMAT]
          /\ \A t \in Threads :
                held[t] # Unbound =>
                    /\ held'[t] = held[t]
                    /\ heap'[held[t]] = heap[held[t]]
      ]_vars

\* A caller holds the composite installed at import, obtained before a
\* set_global_textmap call replaced it in the registry; the object is as it
\* was created.
C8_Witness ==
    \E t \in Threads :
        /\ held[t] # Unbound
        /\ held[t] = InitialComposite
        /\ _HTTP_TEXT_FORMAT # held[t]
        /\ heap[held[t]] = CompositeHTTPPropagator(propagators)

\* Whether a log record names a configured name: in the arguments of its
\* message or in the arguments of the exception attached to it.
Identifies(rec, name) ==
    \/ \E k \in 1..Len(rec.msg_args) : rec.msg_args[k] = name
    \/ \E k \in 1..Len(rec.exc_info.args) : rec.exc_info.args[k] = name

\* C9: when the initialization fails on a configured name, a log record has
\* been emitted before the failure is re-raised, the record identifies the
\* name that failed, and the exception re-raised is the original one.
C9_LoggedWithName ==
    import_pc \in {"raise", "failed"} =>
        /\ Len(log) = 1
        /\ log[1].exc_info = exc
        /\ Identifies(log[1], names[idx])
        /\ import_pc = "failed" => raised = exc

\* C10: once the module is imported, the registry is bound; a
\* get_global_textmap call that has begun can take its read whatever the other
\* threads are doing, and the read neither raises nor yields nothing.
C10_GetNeverBlocksNorFails ==
    Imported =>
        /\ _HTTP_TEXT_FORMAT # Unbound
        /\ \A t \in Threads :
              /\ pc[t] = "get" => ENABLED GetLoad(t)
              /\ pc[t] = "get_ret" =>
                    /\ frame[t].exc = NoExc
                    /\ ret[t] # Unbound
                    /\ ENABLED (GetReturn(t) \/ Dispatch(t))

\* A get has taken its read while a set_global_textmap call of another thread
\* was between its call and its store.
C10_Witness ==
    \E t, u \in Threads :
        /\ pc[t] = "get_ret" /\ op[t] = "get"
        /\ pc[u] = "set"
        /\ ret[t] = _HTTP_TEXT_FORMAT

\* A fields() call on a propagator has returned.
FieldsReturned(t) == op[t] = "fields" /\ pc[t] = "done"

\* C11: fields() of a composite is the set union of its members' fields():
\* a key is in it exactly when some member declares it, so every member's
\* keys are present, no other key is, and a key declared by several members is
\* there once.
C11_FieldsIsUnion ==
    \A t \in Threads :
        (FieldsReturned(t) /\ heap[frame[t].prop].kind = "composite") =>
            LET ms == heap[frame[t].prop].members
            IN  /\ \A k \in 1..Len(ms) :
                      LeafFields(heap[ms[k]].cls) \subseteq frame[t].fields
                /\ \A key \in frame[t].fields :
                      \E k \in 1..Len(ms) : key \in LeafFields(heap[ms[k]].cls)
                /\ frame[t].fields \subseteq Fields

\* fields() has returned for a composite of two members that declare
\* different keys, the first one's key included.
C11_Witness ==
    \E t \in Threads :
        /\ FieldsReturned(t)
        /\ heap[frame[t].prop].kind = "composite"
        /\ Len(heap[frame[t].prop].members) = 2
        /\ heap[heap[frame[t].prop].members[1]].cls = <<"tracecontext">>
        /\ heap[heap[frame[t].prop].members[2]].cls = <<"baggage">>
        /\ frame[t].fields = {"traceparent", "baggage"}

\* The carrier holds none of the keys the members of the composite declare.
NoMemberField(h, ms, carrier) ==
    \A k \in 1..Len(ms) : \A key \in LeafFields(h[ms[k]].cls) : carrier[key] = Absent

\* C12: when the carrier holds none of the keys any member recognises, the
\* composite's extract returns the context it was given, whatever that
\* context is (None and the empty context included) and whatever else the
\* carrier holds (nothing included).
C12_IdentityOnMiss ==
    \A t \in Threads :
        (/\ InMethod(t, "extract") /\ Returned(t)
         /\ heap[frame[t].prop].kind = "composite"
         /\ NoMemberField(heap, heap[frame[t].prop].members, frame[t].carrier0))
        => frame[t].result = frame[t].context

\* An extract through a composite of tracecontext and baggage has returned
\* for a carrier that holds a foreign key only and a context that is not
\* empty; both members were invoked, and the context came back.
C12_Witness ==
    \E t \in Threads :
        /\ InMethod(t, "extract") /\ Returned(t)
        /\ heap[frame[t].prop].kind = "composite"
        /\ Len(frame[t].trace) = 2
        /\ heap[frame[t].trace[1].member].cls = <<"tracecontext">>
        /\ heap[frame[t].trace[2].member].cls = <<"baggage">>
        /\ frame[t].accessor = "dict_getter"
        /\ frame[t].carrier0 = [EmptyMap EXCEPT !["x-custom"] = "v1"]
        /\ frame[t].context = Ctx([EmptyMap EXCEPT !["traceparent"] = "v2"])
        /\ frame[t].result = frame[t].context

\* No two members of the list declare a common key.
FieldDisjoint(h, ms) ==
    \A j, k \in 1..Len(ms) :
        j # k => LeafFields(h[ms[j]].cls) \cap LeafFields(h[ms[k]].cls) = {}

\* C13: round trip.  When a composite with field-disjoint members has
\* injected a context into a fresh empty carrier, extracting from that carrier
\* (read through the getter that matches the setter) into an empty context
\* gives, for every key a member owns, the value the injected context held.
C13_RoundTrip ==
    \A t \in Threads :
        (/\ InMethod(t, "inject") /\ Returned(t)
         /\ heap[frame[t].prop].kind = "composite"
         /\ FieldDisjoint(heap, heap[frame[t].prop].members)
         /\ frame[t].carrier0 = EmptyMap)
        => LET f == frame[t]
               ms == heap[f.prop].members
               back == CompositeExtract(heap, ms, "dict_getter", f.carrier,
                                        Ctx(EmptyMap))
           IN  \A k \in 1..Len(ms) : \A key \in LeafFields(heap[ms[k]].cls) :
                   MapOf(back)[key] = MapOf(f.context)[key]

\* A composite of tracecontext and baggage has injected, into an empty
\* carrier, a context that holds both keys with different values and a third
\* key nobody owns; both values are in the carrier, the third is not, and the
\* extraction gives both back.
C13_Witness ==
    \E t \in Threads :
        /\ InMethod(t, "inject") /\ Returned(t)
        /\ heap[frame[t].prop].kind = "composite"
        /\ Len(heap[frame[t].prop].members) = 2
        /\ FieldDisjoint(heap, heap[frame[t].prop].members)
        /\ frame[t].carrier0 = EmptyMap
        /\ frame[t].context = Ctx([key \in Fields |->
                                    IF key = "baggage" THEN "v2" ELSE "v1"])
        /\ frame[t].carrier = [EmptyMap EXCEPT !["traceparent"] = "v1",
                                               !["baggage"] = "v2"]
        /\ CompositeExtract(heap, heap[frame[t].prop].members, "dict_getter",
                            frame[t].carrier, Ctx(EmptyMap))
             = Ctx([EmptyMap EXCEPT !["traceparent"] = "v1",
                                    !["baggage"] = "v2"])

\* The member lists that hold the same members as ms in another order.
Reorderings(ms) ==
    {[k \in 1..Len(ms) |-> ms[p[k]]] :
        p \in {q \in [1..Len(ms) -> 1..Len(ms)] :
                  \A j, k \in 1..Len(ms) : j # k => q[j] # q[k]}}

\* C14: for a composite with field-disjoint members, the members taken in
\* any other order give the same extracted context (for every getter, carrier
\* and input context) and leave the same key-to-value mapping in the carrier
\* after inject (for every context and initial carrier).
C14_OrderIrrelevant ==
    \A t \in Threads :
        (/\ InMethod(t, op[t]) /\ Returned(t)
         /\ op[t] \in {"extract", "inject"}
         /\ heap[frame[t].prop].kind = "composite"
         /\ FieldDisjoint(heap, heap[frame[t].prop].members))
        => LET f == frame[t]
           IN  \A other \in Reorderings(heap[f.prop].members) :
                   IF op[t] = "extract"
                   THEN CompositeExtract(heap, other, f.accessor, f.carrier0,
                                         f.context) = f.result
                   ELSE CompositeInject(heap, other, f.accessor, f.carrier0,
                                        f.context) = f.carrier

\* A composite of tracecontext and baggage has injected a context holding
\* both keys: traceparent was written first and baggage second, the members
\* in the opposite order write baggage first, and the carrier is the same.
C14_Witness ==
    \E t \in Threads :
        /\ InMethod(t, "inject") /\ Returned(t)
        /\ heap[frame[t].prop].kind = "composite"
        /\ Len(heap[frame[t].prop].members) = 2
        /\ FieldDisjoint(heap, heap[frame[t].prop].members)
        /\ frame[t].writes = << <<"traceparent", "v1">>, <<"baggage", "v2">> >>
        /\ LET ms == heap[frame[t].prop].members
               swapped == <<ms[2], ms[1]>>
           IN  /\ swapped \in Reorderings(ms)
               /\ swapped # ms
               /\ WritesOf(heap, swapped, frame[t].context, 2)
                    = << <<"baggage", "v2">>, <<"traceparent", "v1">> >>
               /\ CompositeInject(heap, swapped, frame[t].accessor,
                                  frame[t].carrier0, frame[t].context)
                    = frame[t].carrier

\* C15: with no PROPAGATORS value supplied, the list the import iterates is
\* [tracecontext, baggage]; the list is not changed afterwards, and the
\* composite installed for that list has exactly two members, an instance of
\* the tracecontext class first and an instance of the baggage class second.
C15_DefaultIsTraceContextBaggage ==
    [][ /\ (import_pc = "start" /\ import_pc' # "start" /\ config = Unset) =>
              names' = << <<"tracecontext">>, <<"baggage">> >>
        /\ import_pc # "start" => names' = names
        /\ (import_pc # "done" /\ import_pc' = "done"
              /\ names = << <<"tracecontext">>, <<"baggage">> >>) =>
              /\ _HTTP_TEXT_FORMAT' # Unbound
              /\ heap'[_HTTP_TEXT_FORMAT'].kind = "composite"
              /\ Len(heap'[_HTTP_TEXT_FORMAT'].members) = 2
              /\ heap'[heap'[_HTTP_TEXT_FORMAT'].members[1]]
                    = Leaf(<<"tracecontext">>)
              /\ heap'[heap'[_HTTP_TEXT_FORMAT'].members[2]]
                    = Leaf(<<"baggage">>)
      ]_vars

\* The import has completed with no PROPAGATORS value supplied (and none
\* supplied since): the registry holds a composite of a tracecontext and a
\* baggage instance, in that order.
C15_Witness ==
    /\ Imported
    /\ config = Unset
    /\ calls = 0
    /\ _HTTP_TEXT_FORMAT = InitialComposite
    /\ Len(heap[_HTTP_TEXT_FORMAT].members) = 2
    /\ heap[heap[_HTTP_TEXT_FORMAT].members[1]].cls = <<"tracecontext">>
    /\ heap[heap[_HTTP_TEXT_FORMAT].members[2]].cls = <<"baggage">>

\* C16: once the import has completed, a step changes the registry only if
\* it is the store of a set_global_textmap call, and then to that call's
\* argument: no step of get_global_textmap, of extract or of inject (returning
\* or raising) changes it.  The name list is fixed by the one read of the
\* configuration at import, and a later change of the configuration changes
\* neither the list, nor the instances, nor the registry.
C16_OnlySetChangesRegistry ==
    [][ /\ (Imported /\ _HTTP_TEXT_FORMAT' # _HTTP_TEXT_FORMAT) =>
              \E t \in Threads :
                  /\ op[t] = "set" /\ pc[t] = "set" /\ pc'[t] = "set_ret"
                  /\ _HTTP_TEXT_FORMAT' = arg[t]
        /\ import_pc # "start" => names' = names
        /\ config' # config =>
              /\ import_pc # "start"
              /\ UNCHANGED <<names, propagators, heap, _HTTP_TEXT_FORMAT>>
      ]_vars

\* The configuration no longer gives the list the import read, an extract
\* has raised and an inject has returned, and the registry still holds the
\* composite installed at import.
C16_Witness ==
    /\ Imported
    /\ Split(ConfigGet(config, DefaultPropagators)) # names
    /\ \E t \in Threads :
          op[t] = "extract" /\ pc[t] = "done" /\ frame[t].exc # NoExc
    /\ \E t \in Threads :
          op[t] = "inject" /\ pc[t] = "done" /\ frame[t].exc = NoExc
    /\ _HTTP_TEXT_FORMAT = InitialComposite

\* C17: a module-level extract or inject call reads the registry once, in
\* the get_global_textmap call it starts with, and calls the method of the
\* propagator that read returned; from then on the call stays with that
\* propagator whatever set_global_textmap stores meanwhile: every member
\* invoked is a member of it, in its order, and a call that returns gives
\* what that propagator's method gives for the caller's accessor, carrier and
\* context.
C17_WholeCallOnOnePropagator ==
    [][ \A t \in Threads :
          op'[t] \in {"extract", "inject"} =>
            /\ pc'[t] # pc[t] =>
                  <<pc[t], pc'[t]>> \in {<<"idle", "get">>, <<"get", "get_ret">>,
                                         <<"get_ret", "call">>,
                                         <<"get_ret", "done">>,
                                         <<"call", "done">>}
            /\ (pc[t] = "get_ret" /\ pc'[t] = "call") =>
                  frame'[t].prop = ret[t]
            /\ (pc[t] = "call" /\ pc'[t] \in {"call", "done"}) =>
                  frame'[t].prop = frame[t].prop
            /\ (pc'[t] \in {"call", "done"} /\ frame'[t].prop # Unbound) =>
                  LET f == frame'[t]
                      ms == Targets(heap', f.prop)
                  IN  /\ Len(f.trace) <= Len(ms)
                      /\ \A k \in 1..Len(f.trace) : f.trace[k].member = ms[k]
                      /\ (pc'[t] = "done" /\ f.exc = NoExc) =>
                            IF op'[t] = "extract"
                            THEN f.result =
                                   CompositeExtract(heap', ms, f.accessor,
                                                    f.carrier0, f.context)
                            ELSE f.carrier =
                                   CompositeInject(heap', ms, f.accessor,
                                                   f.carrier0, f.context)
      ]_vars

\* A module-level extract has returned what the import's composite gives,
\* both of its members invoked, although a set_global_textmap call stored
\* another propagator after the extract had read the registry.
C17_Witness ==
    \E t \in Threads :
        /\ InMethod(t, "extract") /\ Returned(t)
        /\ frame[t].prop = InitialComposite
        /\ _HTTP_TEXT_FORMAT # frame[t].prop
        /\ Len(frame[t].trace) = 2
        /\ \A k \in 1..2 :
              frame[t].trace[k].member = heap[InitialComposite].members[k]
        /\ frame[t].result # frame[t].context
        /\ frame[t].result =
              CompositeExtract(heap, heap[InitialComposite].members,
                               frame[t].accessor, frame[t].carrier0,
                               frame[t].context)

\* No set_global_textmap call is running.
NoSetRunning == \A u \in Threads : op[u] # "set"

\* C18: every store of a set_global_textmap call puts that call's argument in
\* the registry, and nothing else changes the registry, so the registry
\* always holds the argument of the store applied last.  Whenever all the
\* set_global_textmap calls that ran together have returned, that is one of
\* their arguments, and a get_global_textmap that reads before another set
\* call begins returns it.  The registry is never unbound and never holds a
\* reference nobody installed.
C18_LastWriteWins ==
    [][ Imported =>
          /\ \A t \in Threads :
                (pc[t] = "set" /\ pc'[t] = "set_ret") =>
                    _HTTP_TEXT_FORMAT' = arg[t]
          /\ NoSetRunning => _HTTP_TEXT_FORMAT' = _HTTP_TEXT_FORMAT
          /\ ((\A u \in Threads : op'[u] # "set") /\ batch' # {}) =>
                _HTTP_TEXT_FORMAT' \in batch'
          /\ \A t \in Threads :
                (/\ op[t] = "get" /\ pc[t] = "get" /\ pc'[t] = "get_ret"
                 /\ NoSetRunning /\ batch # {}) =>
                    /\ ret'[t] = _HTTP_TEXT_FORMAT
                    /\ ret'[t] \in batch
                    /\ frame'[t].exc = NoExc
          /\ _HTTP_TEXT_FORMAT' # Unbound
          /\ _HTTP_TEXT_FORMAT' \in passed' \cup {InitialComposite}
      ]_vars

\* Two set_global_textmap calls with different propagators ran together and
\* both have returned; a get_global_textmap call has then read the registry:
\* it got the argument of the call whose store came last, which is not the
\* call that returned last.
C18_Witness ==
    /\ NoSetRunning
    /\ Cardinality(batch) = 2
    /\ returned_set \in batch
    /\ \E t \in Threads :
          /\ op[t] = "get" /\ pc[t] = "get_ret"
          /\ ret[t] = _HTTP_TEXT_FORMAT
          /\ ret[t] \in batch
          /\ ret[t] # returned_set

Next ==
    \/ ImportStart
    \/ ImportLoadPropagator
    \/ ImportLogException
    \/ ImportReraise
    \/ ImportInstall
    \/ \E c \in NewConfigs : ChangeConfig(c)
    \/ \E t \in Threads :
         \/ GetCall(t)
         \/ GetLoad(t)
         \/ GetReturn(t)
         \/ \E p \in 1..Len(heap) : SetCall(t, p)
         \/ SetStore(t)
         \/ SetReturn(t)
         \/ \E a \in ExtractInputs :
              ExtractCall(t, a.accessor, a.carrier, a.context)
         \/ \E a \in InjectInputs :
              InjectCall(t, a.accessor, a.carrier, a.context)
         \/ Dispatch(t)
         \/ Invoke(t)
         \/ Finish(t)
         \/ Resume(t)

Spec == Init /\ [][Next]_vars

\* The application working on a propagator it holds.
NextDirect ==
    \E t \in Threads :
        \/ DirectExtract(t)
        \/ DirectInject(t)
        \/ DirectFields(t)
        \/ Invoke(t)
        \/ Finish(t)
        \/ Resume(t)

SpecDirect == InitDirect /\ [][NextDirect]_vars
====
